---- MODULE Spec2Model ----
(***************************************************************************)
(* A model of analyze_papers.py: the bibliography loader, the PDF text     *)
(* extractor, the text normalizer, the citation matcher, the per-entry     *)
(* worker and the orchestrator that maps the entries over a process pool   *)
(* and writes the Gephi edge and node tables.                              *)
(*                                                                         *)
(* Text is modelled as a sequence of one-character strings, so that the    *)
(* string operations of the program (lower, translate, replace, split,     *)
(* strip, join, slicing, the regular expressions and the substring test)   *)
(* are computed character by character as Python computes them.            *)
(***************************************************************************)
EXTENDS Integers, Sequences, FiniteSets, TLC

\* ------------------------------------------------------------ bounds
\* The longest bibliography Init draws.
MaxEntries == 6
\* The number of times the program is invoked on the same output directory.
MaxRuns == 2
\* The longest page list the extraction-only specification draws.
MaxPages == 11
\* The longest paper text the matcher-only specification draws.
MaxTextLen == 3

\* ------------------------------------------------- program constants
\* pages[-10:]
TRAILING_PAGES == 10
\* pool.map(..., chunksize=5)
CHUNKSIZE == 5
\* parser.add_argument('--processes', default=4, ...)
DEFAULT_PROCESSES == 4

\* ------------------------------------------------------ Python strings
Min(a, b) == IF a < b THEN a ELSE b
Max(a, b) == IF a > b THEN a ELSE b

\* s[:n] for n >= 0; s[:-k] is Prefix(s, Len(s) - k).
Prefix(s, n) == SubSeq(s, 1, Max(0, Min(n, Len(s))))
\* s[-n:] for n > 0.
Suffix(s, n) == SubSeq(s, Max(1, Len(s) - n + 1), Len(s))

RECURSIVE Concat(_)
\* "".join(parts)
Concat(parts) ==
    IF parts = <<>> THEN <<>> ELSE Head(parts) \o Concat(Tail(parts))

RECURSIVE Join(_, _)
\* sep.join(parts)
Join(parts, sep) ==
    IF parts = <<>> THEN <<>>
    ELSE IF Len(parts) = 1 THEN Head(parts)
    ELSE Head(parts) \o sep \o Join(Tail(parts), sep)

RECURSIVE Split(_, _)
\* s.split(c) for a one-character separator c: empty fields are kept and
\* "".split(c) is [""].
Split(s, c) ==
    IF \A i \in 1..Len(s) : s[i] # c THEN <<s>>
    ELSE LET i == CHOOSE j \in 1..Len(s) :
                     s[j] = c /\ \A k \in 1..(j - 1) : s[k] # c
         IN  <<SubSeq(s, 1, i - 1)>> \o Split(SubSeq(s, i + 1, Len(s)), c)

\* s.replace(c, '') for a one-character c.
Remove(s, chars) == SelectSeq(s, LAMBDA ch : ch \notin chars)

UPPER == <<"A","B","C","D","E","F","G","H","I","J","K","L","M",
           "N","O","P","Q","R","S","T","U","V","W","X","Y","Z">>
LOWER == <<"a","b","c","d","e","f","g","h","i","j","k","l","m",
           "n","o","p","q","r","s","t","u","v","w","x","y","z">>
AsciiLower == {LOWER[i] : i \in 1..26}
AsciiUpper == {UPPER[i] : i \in 1..26}
Digits == {"0","1","2","3","4","5","6","7","8","9"}
\* string.punctuation (without the backquote, which no TLA+ string literal can
\* hold; no text of the model contains one)
Punctuation == {"!", "\"", "#", "$", "%", "&", "'", "(", ")", "*", "+", ",",
                "-", ".", "/", ":", ";", "<", "=", ">", "?", "@", "[", "\\",
                "]", "^", "_", "{", "|", "}", "~"}
\* The characters str.strip() removes.
Whitespace == {" ", "\t", "\n", "\r", "\f"}

LowerChar(ch) ==
    IF ch \in AsciiUpper THEN LOWER[CHOOSE i \in 1..26 : UPPER[i] = ch] ELSE ch
\* s.lower()
Lower(s) == [i \in 1..Len(s) |-> LowerChar(s[i])]

RECURSIVE LStrip(_)
LStrip(s) ==
    IF s # <<>> /\ Head(s) \in Whitespace THEN LStrip(Tail(s)) ELSE s
RECURSIVE RStrip(_)
RStrip(s) ==
    IF s # <<>> /\ s[Len(s)] \in Whitespace
    THEN RStrip(SubSeq(s, 1, Len(s) - 1)) ELSE s
\* s.strip()
Strip(s) == RStrip(LStrip(s))

\* s.endswith(t)
EndsWith(s, t) ==
    Len(t) <= Len(s) /\ SubSeq(s, Len(s) - Len(t) + 1, Len(s)) = t

RECURSIVE FindFrom(_, _, _)
\* The scan behind Python's substring test: try every offset from i on.
FindFrom(t, s, i) ==
    IF i + Len(t) - 1 > Len(s) THEN FALSE
    ELSE IF SubSeq(s, i, i + Len(t) - 1) = t THEN TRUE
    ELSE FindFrom(t, s, i + 1)
\* t in s
Contains(s, t) == FindFrom(t, s, 1)

RECURSIVE FindAllAlpha(_)
\* re.findall(r'[a-z]+', s): the maximal runs of a-z, left to right.
FindAllAlpha(s) ==
    IF s = <<>> THEN <<>>
    ELSE IF Head(s) \notin AsciiLower THEN FindAllAlpha(Tail(s))
    ELSE LET n == CHOOSE k \in 1..Len(s) :
                     /\ \A j \in 1..k : s[j] \in AsciiLower
                     /\ (k = Len(s) \/ s[k + 1] \notin AsciiLower)
         IN  <<SubSeq(s, 1, n)>> \o FindAllAlpha(SubSeq(s, n + 1, Len(s)))

\* ------------------------------------------------------ pre_process
pre_process(text) ==
    LET lowered  == Lower(text)
        nopunct  == Remove(lowered, Punctuation)
        nobreaks == Remove(Remove(nopunct, {"\r"}), {"\n"})
        nodigits == Remove(nobreaks, Digits)
    IN  Join(FindAllAlpha(nodigits), <<" ">>)

\* ------------------------------------------------------ literals
MSG_MISSING == <<"M","i","s","s","i","n","g"," ","Z","o","t","e","r","o"," ",
                 "f","i","l","e"," ","a","t","t","a","c","h","m","e","n","t">>
MSG_NO_PDF == <<"N","o"," ","P","D","F"," ","F","i","l","e"," ","a","t","t","a",
                "c","h","e","d"," ","t","o"," ","a","r","t","i","c","l","e"," ",
                "e","n","t","r","y">>
DOT_PDF == <<".","p","d","f">>
ET_AL == <<"e","t"," ","a","l",".">>
EDGES_HEADER == << <<"S","o","u","r","c","e">>, <<"T","a","r","g","e","t">>,
                   <<"W","e","i","g","h","t">> >>
NODES_HEADER == << <<"I","d">>, <<"L","a","b","e","l">>,
                   <<"A","u","t","h","o","r">>,
                   <<"P","r","e","t","t","y","N","a","m","e">> >>
\* DEFAULT_OUTPUT_DELIMITER
OUTPUT_DELIMITER == <<"\t">>

VARIABLES
    \* the environment: what outlives one run of the program
    csv_rows,        \* the rows of the Zotero CSV after its header
    docs,            \* what layout_scanner.get_pages gives for each path
    invocations,     \* the --processes argument of every run so far
    edges_file,      \* the lines of gephi/Edges_titles.csv (opened with "a")
    nodes_file,      \* the lines of gephi/Nodes_titles.csv (opened with "a")
    \* the orchestrating process
    pc,              \* where __main__ stands
    titles_dict,     \* the dict of read_titles, as its items in dict order
    title_ids,       \* list(titles_dict.keys())
    taskq,           \* the chunks of pool.map not yet taken by a worker
    workers,         \* each pool process: idle, or its chunk and progress
    outq,            \* the finished chunks, in the order they finished
    result,          \* the list pool.map returned
    graph,           \* the module-level list of [source, target] pairs
    error_documents, \* the list of [title, reason] pairs
    used_filenames,  \* the module-level list of get_pretty_filename
    \* the single-function specifications
    call,            \* the arguments of the function under test
    ret              \* what it returned

vars == <<csv_rows, docs, invocations, edges_file, nodes_file, pc, titles_dict,
          title_ids, taskq, workers, outq, result, graph, error_documents,
          used_filenames, call, ret>>

\* ------------------------------------------------ pdf_to_text_list
\* layout_scanner.get_pages(file_loc, images_folder=None): a list of page
\* strings, a value with no len() (the error signal), or an exception.
get_pages(file_loc) == docs[file_loc]

\* A faulty variant of LastPages: pages[:10], the leading pages.
FirstPages(pages) == Prefix(pages, TRAILING_PAGES)

\* pages[-10:]
LastPages(pages) == Suffix(pages, TRAILING_PAGES)

\* (page_len, pages), or the exception of get_pages passed on: the call at
\* line 35 stands outside the try.
pdf_to_text_list(file_loc) ==
    LET got == get_pages(file_loc)
    IN  CASE got.kind = "raise"  -> [raised |-> TRUE, page_len |-> -1, pages |-> <<>>]
          [] got.kind = "signal" -> [raised |-> FALSE, page_len |-> -1, pages |-> <<>>]
          [] OTHER -> [raised |-> FALSE, page_len |-> Len(got.pages),
                       pages |-> LastPages(got.pages)]

\* ------------------------------------------------------ process_pdf
IsPdfName(file) == EndsWith(Strip(Lower(file)), DOT_PDF)

\* The loop of lines 103-107: the first attachment named *.pdf, as written
\* in the file column, or <<>> standing for None when `found` is FALSE.
FirstPdf(all_files) ==
    LET hits == {i \in 1..Len(all_files) : IsPdfName(all_files[i])}
    IN  IF hits = {} THEN [found |-> FALSE, file |-> <<>>]
        ELSE [found |-> TRUE,
              file |-> all_files[CHOOSE i \in hits : \A j \in hits : i <= j]]

\* (bool, text) with write_to_disk=False, or the exception passed on. Of
\* the log, `checking` keeps the two numbers of the line "Checking last %s
\* PDF pages out of %s total" (<<>> when the line is not logged).
process_pdf(metadata) ==
    IF Len(metadata.file) < 1
    THEN [raised |-> FALSE, ok |-> FALSE, text |-> MSG_MISSING,
          checking |-> <<>>]
    ELSE LET first_pdf == FirstPdf(Split(metadata.file, ";"))
         IN  IF ~first_pdf.found
             THEN [raised |-> FALSE, ok |-> FALSE, text |-> MSG_NO_PDF,
                   checking |-> <<>>]
             ELSE LET got == pdf_to_text_list(first_pdf.file)
                      all_pages == Join(got.pages, <<"\n">>)
                  IN  IF got.raised
                      THEN [raised |-> TRUE, ok |-> FALSE, text |-> <<>>,
                            checking |-> <<>>]
                      ELSE [raised |-> FALSE, ok |-> Len(all_pages) > 0,
                            text |-> all_pages,
                            checking |-> IF got.page_len # -1
                                         THEN <<Len(got.pages), got.page_len>>
                                         ELSE <<>>]

\* --------------------------------------------------- find_citations
\* A faulty variant of NoSpaces: the blanks are kept.
KeepSpaces(s) == s

\* title.replace(' ', '')
NoSpaces(s) == Remove(s, {" "})

\* A faulty variant of IsCited: the entry's own title is not skipped.
IsCitedWithSelf(title, fixed_paper_title, fixed_text) ==
    Contains(Remove(fixed_text, {" "}), Remove(title, {" "}))

\* A faulty variant of IsCited: a title that normalizes to nothing is skipped.
IsCitedNonEmpty(title, fixed_paper_title, fixed_text) ==
    /\ title # fixed_paper_title
    /\ title # <<>>
    /\ Contains(Remove(fixed_text, {" "}), Remove(title, {" "}))

\* The test of lines 142-143 for one title.
IsCited(title, fixed_paper_title, fixed_text) ==
    /\ title # fixed_paper_title
    /\ Contains(NoSpaces(fixed_text), NoSpaces(title))

\* cited_ids: the loop appends in the order of all_titles.
find_citations(paper_text, all_titles, metadata) ==
    LET fixed_paper_title == pre_process(metadata.title)
        fixed_text == pre_process(paper_text)
    IN  SelectSeq(all_titles,
                  LAMBDA title : IsCited(title, fixed_paper_title, fixed_text))

\* --------------------------------------------------- article_worker
\* (title, pdf_result, text, cited_papers), or the exception passed on.
\* The timing and the log lines it prints are left out: nothing reads them.
article_worker(dict_item, all_titles) ==
    LET title == dict_item[1]
        metadata == dict_item[2]
        pdf == process_pdf(metadata)
    IN  IF pdf.raised
        THEN [raised |-> TRUE, title |-> title, pdf_result |-> FALSE,
              text |-> <<>>, cited_papers |-> <<>>]
        ELSE [raised |-> FALSE, title |-> title, pdf_result |-> pdf.ok,
              text |-> pdf.text,
              cited_papers |-> IF pdf.ok
                               THEN find_citations(pdf.text, all_titles, metadata)
                               ELSE <<>>]

\* ------------------------------------------------------ read_titles
\* A faulty variant of DictSet: the item is added even when the key is known.
DictAppend(d, key, value) == Append(d, <<key, value>>)

RECURSIVE DictSet(_, _, _)
\* d[key] = value on a dict kept as its items: a known key keeps its place.
DictSet(d, key, value) ==
    IF d = <<>> THEN << <<key, value>> >>
    ELSE IF Head(d)[1] = key THEN << <<key, value>> >> \o Tail(d)
    ELSE <<Head(d)>> \o DictSet(Tail(d), key, value)

DictKeys(d) == [i \in 1..Len(d) |-> d[i][1]]
DictGet(d, key) == d[CHOOSE i \in 1..Len(d) : d[i][1] = key][2]

RECURSIVE ReadRows(_, _)
ReadRows(titles, rows) ==
    IF rows = <<>> THEN titles
    ELSE ReadRows(DictSet(titles, pre_process(Head(rows).title), Head(rows)),
                  Tail(rows))
read_titles(rows) == ReadRows(<<>>, rows)

\* ---------------------------------------------- get_pretty_filename
AlNum == AsciiLower \cup AsciiUpper \cup Digits
\* The name, and used_filenames after the append.
get_pretty_filename(metadata, used) ==
    LET fixed_title ==
            SelectSeq(Join(Prefix(Split(metadata.title, " "), 10), <<"_">>),
                      LAMBDA ch : ch \in AlNum)
        authors == Split(metadata.author, ";")
        author_2nd ==
            IF Len(authors) > 2 THEN ET_AL
            ELSE IF Len(authors) = 2
                 THEN <<"&", " ">> \o Split(authors[2], ",")[1]
                 ELSE <<>>
        author_1st == Split(authors[1], ",")[1]
        txt_filename == author_1st \o <<" ">> \o author_2nd \o <<" ">>
                        \o metadata.year
        final == IF \E i \in 1..Len(used) : used[i] = txt_filename
                 THEN txt_filename \o Prefix(fixed_title, Len(fixed_title) - 20)
                 ELSE txt_filename
    IN  [name |-> final, used |-> Append(used, final)]

\* ------------------------------------------------------ the inputs
Row(title, author, year, file) ==
    [title |-> title, author |-> author, file |-> file, year |-> year]

PATH_X == <<"x",".","p","d","f">>
\* An attachment named in upper case with a trailing blank: lower().strip()
\* finds it, and the name is passed on as written.
PATH_Y == <<"Y",".","P","D","F"," ">>
NOTES == <<"n",".","t","x","t">>

AUTHOR_1 == <<"X",","," ","y">>
AUTHOR_2 == AUTHOR_1 \o <<";">> \o <<"Z",","," ","w">>
AUTHOR_3 == AUTHOR_2 \o <<";">> \o <<"V",","," ","u">>

\* The rows bibliographies are cut from. Rows 5 and 6 normalize to one key,
\* row 3 to the empty key.
RowPool ==
    << Row(<<"A","b">>, AUTHOR_1, <<"1">>, <<>>),
       Row(<<"b"," ","a">>, AUTHOR_2, <<"2">>, PATH_X),
       Row(<<"1">>, AUTHOR_1, <<"1">>, NOTES),
       Row(<<"B","-","A">>, AUTHOR_3, <<"3">>, NOTES \o <<";">> \o PATH_Y),
       Row(<<"a","."," ","B">>, AUTHOR_1, <<"2">>, PATH_X),
       Row(<<"A"," ","b","!">>, AUTHOR_2, <<"2">>, PATH_Y),
       Row(<<"c">>, AUTHOR_1, <<"3">>, PATH_X) >>

\* n consecutive rows of the pool, starting after row o and wrapping around.
Bibliography(n, o) ==
    [i \in 1..n |-> RowPool[((o + i - 1) % Len(RowPool)) + 1]]
Bibliographies ==
    {Bibliography(n, o) : n \in 0..MaxEntries, o \in 0..(Len(RowPool) - 1)}

Pages(pages) == [kind |-> "pages", pages |-> pages]
ErrorSignal == [kind |-> "signal", pages |-> <<>>]
Raises == [kind |-> "raise", pages |-> <<>>]
\* What get_pages may do with one file.
Outcomes ==
    { Pages(<< <<"A"," ","b">>, <<"b","a">> >>), Pages(<< <<"c">> >>),
      Pages(<< <<>> >>), ErrorSignal, Raises }

PoolSizes == {1, DEFAULT_PROCESSES}

\* ------------------------------------------------------ the pool
Idle == [chunk |-> 0, acc |-> <<>>]

NumChunks(n) == (n + CHUNKSIZE - 1) \div CHUNKSIZE
\* The i-th task of pool.map: items[(i-1)*chunksize : i*chunksize].
ChunkItems(items, i) ==
    SubSeq(items, (i - 1) * CHUNKSIZE + 1, Min(i * CHUNKSIZE, Len(items)))

\* A faulty variant of MapValue: the chunks are read in the order they
\* finished, and one that finished out of turn is dropped.
MapValueInTurn(done, nchunks) ==
    Concat([i \in 1..nchunks |->
               IF done[i].chunk = i THEN done[i].value ELSE <<>>])

\* The list pool.map returns: every chunk's results at the chunk's own place,
\* whatever order the chunks finished in.
MapValue(done, nchunks) ==
    Concat([i \in 1..nchunks |->
               done[CHOOSE j \in 1..Len(done) : done[j].chunk = i].value])

\* ------------------------------------------------------ __main__
StartState(rows, d, invs) ==
    /\ csv_rows = rows
    /\ docs = d
    /\ invocations = invs
    /\ edges_file = <<>>
    /\ nodes_file = <<>>
    /\ pc = "read"
    /\ titles_dict = <<>>
    /\ title_ids = <<>>
    /\ taskq = <<>>
    /\ workers = <<>>
    /\ outq = <<>>
    /\ result = <<>>
    /\ graph = <<>>
    /\ error_documents = <<>>
    /\ used_filenames = <<>>
    /\ call = <<>>
    /\ ret = <<>>

Init ==
    \E rows \in Bibliographies, d \in [{PATH_X, PATH_Y} -> Outcomes],
       p \in PoolSizes :
        StartState(rows, d, <<p>>)

WORKER_PROCESSES == invocations[Len(invocations)]

\* Lines 233-234.
ReadTitles ==
    /\ pc = "read"
    /\ titles_dict' = read_titles(csv_rows)
    /\ title_ids' = DictKeys(titles_dict')
    /\ pc' = "pool"
    /\ UNCHANGED <<csv_rows, docs, invocations, edges_file, nodes_file, taskq,
                   workers, outq, result, graph, error_documents,
                   used_filenames, call, ret>>

\* Lines 239-242: the pool starts and pool.map queues its chunks.
StartPool ==
    /\ pc = "pool"
    /\ workers' = [w \in 1..WORKER_PROCESSES |-> Idle]
    /\ taskq' = [i \in 1..NumChunks(Len(titles_dict)) |-> i]
    /\ outq' = <<>>
    /\ pc' = "map"
    /\ UNCHANGED <<csv_rows, docs, invocations, edges_file, nodes_file,
                   titles_dict, title_ids, result, graph, error_documents,
                   used_filenames, call, ret>>

\* An idle pool process takes the next chunk off the task queue.
TakeChunk(w) ==
    /\ pc = "map"
    /\ workers[w].chunk = 0
    /\ taskq # <<>>
    /\ workers' = [workers EXCEPT ![w] = [chunk |-> Head(taskq), acc |-> <<>>]]
    /\ taskq' = Tail(taskq)
    /\ UNCHANGED <<csv_rows, docs, invocations, edges_file, nodes_file, pc,
                   titles_dict, title_ids, outq, result, graph,
                   error_documents, used_filenames, call, ret>>

\* A pool process runs article_worker on the next item of its chunk. An
\* exception ends the chunk, which is then reported as failed; after the last
\* item the chunk's results are reported.
WorkItem(w) ==
    /\ pc = "map"
    /\ workers[w].chunk # 0
    /\ LET me == workers[w]
           items == ChunkItems(titles_dict, me.chunk)
           r == article_worker(items[Len(me.acc) + 1], title_ids)
           acc == Append(me.acc, [title |-> r.title, pdf_result |-> r.pdf_result,
                                  text |-> r.text,
                                  cited_papers |-> r.cited_papers])
       IN  IF r.raised
           THEN /\ outq' = Append(outq, [chunk |-> me.chunk, ok |-> FALSE,
                                         value |-> <<>>])
                /\ workers' = [workers EXCEPT ![w] = Idle]
           ELSE IF Len(acc) = Len(items)
           THEN /\ outq' = Append(outq, [chunk |-> me.chunk, ok |-> TRUE,
                                         value |-> acc])
                /\ workers' = [workers EXCEPT ![w] = Idle]
           ELSE /\ workers' = [workers EXCEPT ![w].acc = acc]
                /\ outq' = outq
    /\ UNCHANGED <<csv_rows, docs, invocations, edges_file, nodes_file, pc,
                   titles_dict, title_ids, taskq, result, graph,
                   error_documents, used_filenames, call, ret>>

AllChunksDone == Len(outq) = NumChunks(Len(titles_dict))

\* pool.map returns once every chunk has reported and none has failed.
MapReturn ==
    /\ pc = "map"
    /\ AllChunksDone
    /\ \A j \in 1..Len(outq) : outq[j].ok
    /\ result' = MapValue(outq, NumChunks(Len(titles_dict)))
    /\ pc' = "aggregate"
    /\ UNCHANGED <<csv_rows, docs, invocations, edges_file, nodes_file,
                   titles_dict, title_ids, taskq, workers, outq, graph,
                   error_documents, used_filenames, call, ret>>

\* pool.map raises a failed chunk's exception in __main__, where nothing
\* catches it: the program ends with a traceback and writes no table.
MapRaise ==
    /\ pc = "map"
    /\ AllChunksDone
    /\ \E j \in 1..Len(outq) : ~outq[j].ok
    /\ pc' = "aborted"
    /\ UNCHANGED <<csv_rows, docs, invocations, edges_file, nodes_file,
                   titles_dict, title_ids, taskq, workers, outq, result, graph,
                   error_documents, used_filenames, call, ret>>

\* A faulty variant of EdgesOf: source and target are swapped.
EdgesOfSwapped(r) ==
    [i \in 1..Len(r.cited_papers) |-> <<r.cited_papers[i], r.title>>]

\* The pairs one result adds to graph.
EdgesOf(r) == [i \in 1..Len(r.cited_papers) |-> <<r.title, r.cited_papers[i]>>]

RECURSIVE Edges(_)
Edges(results) ==
    IF results = <<>> THEN <<>>
    ELSE (IF Head(results).pdf_result THEN EdgesOf(Head(results)) ELSE <<>>)
         \o Edges(Tail(results))

RECURSIVE ErrorsReversed(_)
\* A faulty variant of Errors: each failure is put in front of the list.
ErrorsReversed(results) ==
    IF results = <<>> THEN <<>>
    ELSE ErrorsReversed(Tail(results))
         \o (IF Head(results).pdf_result THEN <<>>
             ELSE << <<Head(results).title, Head(results).text>> >>)

RECURSIVE Errors(_)
Errors(results) ==
    IF results = <<>> THEN <<>>
    ELSE (IF Head(results).pdf_result THEN <<>>
          ELSE << <<Head(results).title, Head(results).text>> >>)
         \o Errors(Tail(results))

\* Lines 243-249.
Aggregate ==
    /\ pc = "aggregate"
    /\ graph' = graph \o Edges(result)
    /\ error_documents' = error_documents \o Errors(result)
    /\ pc' = "edges"
    /\ UNCHANGED <<csv_rows, docs, invocations, edges_file, nodes_file,
                   titles_dict, title_ids, taskq, workers, outq, result,
                   used_filenames, call, ret>>

\* OUTPUT_DELIMITER.join(fields): one line of a table, without its "\n".
Line(fields) == Join(fields, OUTPUT_DELIMITER)

\* Lines 262-266.
WriteEdges ==
    /\ pc = "edges"
    /\ edges_file' = edges_file \o <<Line(EDGES_HEADER)>>
           \o [i \in 1..Len(graph) |->
                  Line(<<graph[i][1], graph[i][2], <<"1">> >>)]
    /\ pc' = "nodes"
    /\ UNCHANGED <<csv_rows, docs, invocations, nodes_file, titles_dict,
                   title_ids, taskq, workers, outq, result, graph,
                   error_documents, used_filenames, call, ret>>

RECURSIVE NodeLines(_, _, _)
\* The loop of lines 272-275: the lines written and used_filenames after it.
NodeLines(ids, titles, used) ==
    IF ids = <<>> THEN [lines |-> <<>>, used |-> used]
    ELSE LET metadata == DictGet(titles, Head(ids))
             pretty == get_pretty_filename(metadata, used)
             rest == NodeLines(Tail(ids), titles, pretty.used)
         IN  [lines |-> <<Line(<<Head(ids), metadata.title, metadata.author,
                                  pretty.name>>)>> \o rest.lines,
              used |-> rest.used]

\* Lines 269-275.
WriteNodes ==
    /\ pc = "nodes"
    /\ LET out == NodeLines(title_ids, titles_dict, used_filenames)
       IN  /\ nodes_file' = nodes_file \o <<Line(NODES_HEADER)>> \o out.lines
           /\ used_filenames' = out.used
    /\ pc' = "done"
    /\ UNCHANGED <<csv_rows, docs, invocations, edges_file, titles_dict,
                   title_ids, taskq, workers, outq, result, graph,
                   error_documents, call, ret>>

\* The program is run again on the same CSV and output directory, with the
\* other pool size: a new process, whose module state starts afresh; the
\* tables stay on disk.
Restart ==
    /\ pc \in {"done", "aborted"}
    /\ Len(invocations) < MaxRuns
    /\ \E p \in PoolSizes \ {WORKER_PROCESSES} :
           invocations' = Append(invocations, p)
    /\ pc' = "read"
    /\ titles_dict' = <<>>
    /\ title_ids' = <<>>
    /\ taskq' = <<>>
    /\ workers' = <<>>
    /\ outq' = <<>>
    /\ result' = <<>>
    /\ graph' = <<>>
    /\ error_documents' = <<>>
    /\ used_filenames' = <<>>
    /\ UNCHANGED <<csv_rows, docs, edges_file, nodes_file, call, ret>>

Next ==
    \/ ReadTitles
    \/ StartPool
    \/ \E w \in DOMAIN workers : TakeChunk(w)
    \/ \E w \in DOMAIN workers : WorkItem(w)
    \/ MapReturn
    \/ MapRaise
    \/ Aggregate
    \/ WriteEdges
    \/ WriteNodes
    \/ Restart

Spec == Init /\ [][Next]_vars

\* ------------------------------------- process_pdf on long documents
\* What a page of the extraction-only specification may hold.
PagePool == {<<>>, <<"a">>}
PageLists == UNION {[1..n -> PagePool] : n \in 0..MaxPages}

InitExtract ==
    \E got \in {Pages(p) : p \in PageLists} \cup {ErrorSignal, Raises} :
        /\ StartState(<<Row(<<"c">>, AUTHOR_1, <<"3">>, PATH_X)>>,
                      [f \in {PATH_X} |-> got], <<>>)

\* process_pdf(metadata) is called on the entry and returns or raises.
CallProcessPdf ==
    /\ pc = "read"
    /\ call' = [metadata |-> csv_rows[1]]
    /\ ret' = process_pdf(csv_rows[1])
    /\ pc' = IF ret'.raised THEN "raised" ELSE "returned"
    /\ UNCHANGED <<csv_rows, docs, invocations, edges_file, nodes_file,
                   titles_dict, title_ids, taskq, workers, outq, result, graph,
                   error_documents, used_filenames>>

NextExtract == CallProcessPdf

SpecExtract == InitExtract /\ [][NextExtract]_vars

\* ------------------------------------ find_citations on arbitrary text
TextAlphabet == {"a", "B", " ", "-"}
Texts == UNION {[1..n -> TextAlphabet] : n \in 0..MaxTextLen}

SEA_TITLE == <<"S","e","a"," ","L","e","v","e","l"," ","R","i","s","e">>
SEA_KEY == <<"s","e","a"," ","l","e","v","e","l"," ","r","i","s","e">>
SEA_SPACED == <<"s","e","a"," ","l","e","v","e","l"," ","r","i","s","e">>
SEA_FUSED == <<"s","e","a","l","e","v","e","l","r","i","s","e">>
SeaBibliography ==
    << RowPool[2], Row(SEA_TITLE, AUTHOR_1, <<"1">>, <<>>), RowPool[1] >>

\* The bibliography is loaded as by lines 233-234; find_citations is then
\* called for one of its entries with some extracted text.
InitMatch ==
    \E rows \in (Bibliographies \ {<<>>}) \cup {SeaBibliography},
       text \in Texts \cup {SEA_SPACED, SEA_FUSED} :
        \E item \in 1..Len(read_titles(rows)) :
            /\ csv_rows = rows
            /\ docs = <<>>
            /\ invocations = <<>>
            /\ edges_file = <<>>
            /\ nodes_file = <<>>
            /\ pc = "called"
            /\ titles_dict = read_titles(rows)
            /\ title_ids = DictKeys(read_titles(rows))
            /\ taskq = <<>>
            /\ workers = <<>>
            /\ outq = <<>>
            /\ result = <<>>
            /\ graph = <<>>
            /\ error_documents = <<>>
            /\ used_filenames = <<>>
            /\ call = [paper_text |-> text, item |-> item]
            /\ ret = <<>>

CallFindCitations ==
    /\ pc = "called"
    /\ ret' = find_citations(call.paper_text, title_ids,
                             titles_dict[call.item][2])
    /\ pc' = "returned"
    /\ UNCHANGED <<csv_rows, docs, invocations, edges_file, nodes_file,
                   titles_dict, title_ids, taskq, workers, outq, result, graph,
                   error_documents, used_filenames, call>>

NextMatch == CallFindCitations

SpecMatch == InitMatch /\ [][NextMatch]_vars

\* ====================================================== properties
Range(seq) == {seq[i] : i \in DOMAIN seq}
Count(seq, e) == Cardinality({i \in DOMAIN seq : seq[i] = e})
\* The fields of a line of a table.
Fields(line) == Split(line, "\t")

RECURSIVE Segments(_, _)
\* The lines each run appended to a table: a run writes the header and then
\* its rows.
Segments(lines, header) ==
    IF lines = <<>> THEN <<>>
    ELSE LET rest == Tail(lines)
             stops == {i \in 1..Len(rest) : rest[i] = header}
             n == IF stops = {} THEN Len(rest)
                  ELSE (CHOOSE i \in stops : \A j \in stops : i <= j) - 1
         IN  <<SubSeq(rest, 1, n)>>
             \o Segments(SubSeq(rest, n + 1, Len(rest)), header)

EdgeRuns == Segments(edges_file, Line(EDGES_HEADER))
NodeRuns == Segments(nodes_file, Line(NODES_HEADER))
NodeIds(lines) == [i \in 1..Len(lines) |-> Fields(lines[i])[1]]

\* The normalized keys of the rows of the CSV.
CsvKeys == {pre_process(csv_rows[i].title) : i \in 1..Len(csv_rows)}
\* The first row of the CSV that has the key.
EncounterIndex(key) ==
    CHOOSE i \in 1..Len(csv_rows) :
        /\ pre_process(csv_rows[i].title) = key
        /\ \A j \in 1..(i - 1) : pre_process(csv_rows[j].title) # key

Aggregated == pc \in {"edges", "nodes", "done"}
\* The pool of the current run finished its second chunk before its first.
OutOfTurn == Len(outq) = 2 /\ outq[1].chunk = 2

\* C1: the runs of the program on one bibliography and one set of extraction
\* results, with a pool of 1 and with a pool of 4 processes, write the same
\* set of edge rows and the same set of node ids, however the pool's
\* processes interleaved.
C1_SameGraphForEveryPoolSize ==
    LET edges == [a \in DOMAIN EdgeRuns |-> Range(EdgeRuns[a])]
        nodes == [a \in DOMAIN NodeRuns |-> Range(NodeIds(NodeRuns[a]))]
    IN  /\ \A a, b \in DOMAIN edges : edges[a] = edges[b]
        /\ \A a, b \in DOMAIN nodes : nodes[a] = nodes[b]

\* A run with 1 process and then a run with 4, whose second chunk finished
\* first, have both written their tables, with edges from both chunks.
C1_Witness ==
    /\ pc = "done"
    /\ invocations = <<1, DEFAULT_PROCESSES>>
    /\ OutOfTurn
    /\ Len(EdgeRuns) = 2
    /\ \E i \in 1..CHUNKSIZE, j \in (CHUNKSIZE + 1)..Len(result) :
           result[i].cited_papers # <<>> /\ result[j].cited_papers # <<>>

\* C2: no error crosses the boundary between a pool process and __main__:
\* every chunk reports results, whatever get_pages did, and the run is not
\* ended by an exception.
C2_NoErrorCrossesTheBoundary ==
    /\ \A j \in 1..Len(outq) : outq[j].ok
    /\ pc # "aborted"

\* Every result a worker has produced so far in the current run.
ProducedResults ==
    UNION ( {Range(workers[w].acc) : w \in DOMAIN workers}
            \cup {Range(outq[j].value) : j \in DOMAIN outq}
            \cup {Range(result)} )

\* C3: no result lists its own entry among the cited keys, and no edge of
\* the graph or row of the edge table has its source as its target.
C3_NoSelfCitation ==
    /\ \A r \in ProducedResults : r.title \notin Range(r.cited_papers)
    /\ \A e \in DOMAIN graph : graph[e][1] # graph[e][2]
    /\ \A l \in Range(edges_file) :
           l # Line(EDGES_HEADER) => Fields(l)[1] # Fields(l)[2]

\* An entry whose text holds its own title has produced edges, which are
\* written.
C3_Witness ==
    /\ pc = "done"
    /\ \E i \in DOMAIN result :
           /\ result[i].cited_papers # <<>>
           /\ result[i].title # <<>>
           /\ Contains(Remove(pre_process(result[i].text), {" "}),
                       Remove(result[i].title, {" "}))

\* C4: when a run has written the node table, the rows it wrote hold every
\* normalized key of the CSV exactly once, and no other id, whether or not
\* the entry's text was extracted.
C4_OneNodePerKey ==
    pc = "done" =>
        LET ids == NodeIds(NodeRuns[Len(NodeRuns)])
        IN  /\ Range(ids) = CsvKeys
            /\ \A k \in CsvKeys : Count(ids, k) = 1

\* Two rows of the CSV shared a key, one entry was extracted and another was
\* not, and the node table is written.
C4_Witness ==
    /\ pc = "done"
    /\ Cardinality(CsvKeys) < Len(csv_rows)
    /\ \E i, j \in DOMAIN result : result[i].pdf_result /\ ~result[j].pdf_result

\* What get_pages gave for the first PDF of the entry with the key: "none"
\* without a PDF, else "signal", "raise", "empty" (pages that join to
\* nothing) or "text".
ExtractionOf(key) ==
    LET metadata == DictGet(titles_dict, key)
        first_pdf == FirstPdf(Split(metadata.file, ";"))
    IN  IF Len(metadata.file) < 1 \/ ~first_pdf.found THEN "none"
        ELSE LET got == docs[first_pdf.file]
             IN  IF got.kind # "pages" THEN got.kind
                 ELSE IF Join(got.pages, <<"\n">>) = <<>>
                      THEN "empty" ELSE "text"

\* C5: an entry whose extraction signalled an error and an entry whose pages
\* joined to an empty text are both recorded as failures, and never with the
\* same reason.
C5_DistinctFailureReasons ==
    Aggregated =>
        \A i, j \in DOMAIN error_documents :
            ( /\ ExtractionOf(error_documents[i][1]) = "signal"
              /\ ExtractionOf(error_documents[j][1]) = "empty" )
            => error_documents[i][2] # error_documents[j][2]

\* The bibliography of entry A, without a file, and entry B, whose text
\* holds A's key without blanks.
ScenarioAB ==
    /\ csv_rows = Bibliography(2, 0)
    /\ docs[PATH_X] = Pages(<< <<"A"," ","b">>, <<"b","a">> >>)

\* C6: after the aggregation the graph holds exactly one edge (k, t) for
\* every successful result k and every key t it cites, and no other edge;
\* every row of the edge table has weight 1; and for entries A and B of the
\* scenario the graph is the single edge (B, A).
C6_EdgesAreTheCitationsOfSuccesses ==
    /\ Aggregated =>
        /\ \A i \in DOMAIN result : result[i].pdf_result =>
               \A t \in Range(result[i].cited_papers) :
                   Count(graph, <<result[i].title, t>>) = 1
        /\ \A e \in DOMAIN graph : \E i \in DOMAIN result :
               /\ result[i].pdf_result
               /\ graph[e][1] = result[i].title
               /\ graph[e][2] \in Range(result[i].cited_papers)
        /\ ScenarioAB => graph = << <<pre_process(csv_rows[2].title),
                                      pre_process(csv_rows[1].title)>> >>
    /\ \A l \in Range(edges_file) :
           l # Line(EDGES_HEADER) =>
               Len(Fields(l)) = 3 /\ Fields(l)[3] = <<"1">>
    /\ (pc \in {"nodes", "done"} /\ ScenarioAB) =>
           EdgeRuns[Len(EdgeRuns)] = << <<"b"," ","a","\t","a","b","\t","1">> >>

\* The scenario's run has written its edge table.
C6_Witness ==
    /\ pc = "done"
    /\ ScenarioAB
    /\ Len(graph) = 1
    /\ ~result[1].pdf_result

\* C7: after the aggregation the error list holds one (key, reason) pair for
\* every failed result and none for a successful one, in the order in which
\* the keys were first met in the CSV.
C7_ErrorsInEncounterOrder ==
    Aggregated =>
        /\ \A i \in DOMAIN result :
               Count(error_documents, <<result[i].title, result[i].text>>)
                   = IF result[i].pdf_result THEN 0 ELSE 1
        /\ Len(error_documents)
               = Cardinality({i \in DOMAIN result : ~result[i].pdf_result})
        /\ \A i, j \in DOMAIN error_documents : i < j =>
               EncounterIndex(error_documents[i][1])
                   < EncounterIndex(error_documents[j][1])

\* The second chunk finished first, and entries of both chunks failed.
C7_Witness ==
    /\ pc = "done"
    /\ OutOfTurn
    /\ \E i \in 1..CHUNKSIZE, j \in (CHUNKSIZE + 1)..Len(result) :
           ~result[i].pdf_result /\ ~result[j].pdf_result
    /\ \E i \in DOMAIN result : result[i].pdf_result

\* C8: for a document of n pages whose text was extracted, the text is pages
\* max(1, n-9)..n joined by newlines, in their order, and the page count
\* reported is n.
C8_TextIsTheTrailingPages ==
    (pc = "returned" /\ ret.ok) =>
        LET pages == docs[PATH_X].pages
            n == Len(pages)
        IN  /\ ret.text = Join(SubSeq(pages, Max(1, n - 9), n), <<"\n">>)
            /\ ret.checking[2] = n
            /\ ret.checking[1] = Min(n, 10)

\* A document of more than 10 pages whose first page alone holds a letter:
\* the text is extracted and holds no letter.
C8_Witness ==
    /\ pc = "returned"
    /\ ret.ok
    /\ Len(docs[PATH_X].pages) > TRAILING_PAGES
    /\ docs[PATH_X].pages[1] = <<"a">>
    /\ "a" \notin Range(ret.text)

\* t occurs in s as a run of consecutive characters.
IsSubstring(t, s) ==
    \E off \in 0..(Len(s) - Len(t)) :
        \A i \in 1..Len(t) : s[off + i] = t[i]
Unspaced(s) == SelectSeq(s, LAMBDA ch : ch # " ")
IndexIn(seq, e) == CHOOSE i \in DOMAIN seq : seq[i] = e

\* C9: find_citations returns exactly the keys, other than the entry's own,
\* that without their blanks occur in the normalized text without its
\* blanks, each once and in the order of the key list; the key "sea level
\* rise" is found in the text "sea level rise" and in the text
\* "sealevelrise".
C9_CitedKeysAreTheSubstringKeys ==
    pc = "returned" =>
        LET own == titles_dict[call.item][1]
            text == Unspaced(pre_process(call.paper_text))
        IN  /\ Range(ret) = {k \in Range(title_ids) :
                               k # own /\ IsSubstring(Unspaced(k), text)}
            /\ \A k \in Range(ret) : Count(ret, k) = 1
            /\ \A i, j \in DOMAIN ret : i < j =>
                   IndexIn(title_ids, ret[i]) < IndexIn(title_ids, ret[j])
            /\ ( /\ call.paper_text \in {SEA_SPACED, SEA_FUSED}
                 /\ SEA_KEY \in Range(title_ids)
                 /\ own # SEA_KEY )
               => SEA_KEY \in Range(ret)

\* The key "sea level rise" is found in a text that holds "sealevelrise".
C9_Witness ==
    /\ pc = "returned"
    /\ call.paper_text = SEA_FUSED
    /\ SEA_KEY \in Range(ret)
    /\ Len(ret) = 1

\* C10: when a title of the CSV normalizes to the empty key, every other
\* entry whose text was extracted has an edge to the empty key, whatever the
\* text.
C10_EveryTextCitesTheEmptyKey ==
    (Aggregated /\ <<>> \in CsvKeys) =>
        \A i \in DOMAIN result :
            (result[i].pdf_result /\ result[i].title # <<>>)
            => <<result[i].title, <<>> >> \in Range(graph)

\* An entry whose text is "c", which holds no title of the bibliography, has
\* the edge to the empty key as its only edge.
C10_Witness ==
    /\ pc = "done"
    /\ \E i \in DOMAIN result :
           /\ result[i].pdf_result
           /\ result[i].text = <<"c">>
           /\ result[i].cited_papers = << <<>> >>

====
